---- MODULE Spec2Model ----
(***************************************************************************)
(* A state-machine model of src/netflix_analysis.py: a linear batch        *)
(* script that loads a catalog table, cleans it, computes seven            *)
(* aggregates (each followed by one chart write) and writes a short text   *)
(* file of insights.                                                       *)
(*                                                                         *)
(* Strings that the script parses (country, listed_in, duration) are       *)
(* sequences of one-character strings, so that split / strip / regex       *)
(* extraction are computed character by character.  A nullable cell is     *)
(* NaN (the empty tuple) or Val(x) (a one-element tuple).                  *)
(***************************************************************************)
EXTENDS Integers, Sequences, FiniteSets, TLC

\* ------------------------------------------------------------------ bounds
MaxRecords == 2     \* records in the input table
MaxMissing == 1     \* expected columns the input table may lack
MaxDurLen == 3      \* characters of a duration string drawn from DurAlphabet
MaxYears == 3       \* years of a yearly series drawn from GrowthCounts

\* ----------------------------------------------------------------- cells
NaN == <<>>
Val(x) == <<x>>
IsNa(c) == c = NaN
NotNa(c) == c # NaN
Get(c) == c[1]

\* -------------------------------------------------------- string helpers
Digits == {"0", "1", "2", "3", "4", "5", "6", "7", "8", "9"}

DigitVal(ch) ==
    CASE ch = "0" -> 0 [] ch = "1" -> 1 [] ch = "2" -> 2 [] ch = "3" -> 3
      [] ch = "4" -> 4 [] ch = "5" -> 5 [] ch = "6" -> 6 [] ch = "7" -> 7
      [] ch = "8" -> 8 [] ch = "9" -> 9

Unknown == <<"U", "n", "k", "n", "o", "w", "n">>

RECURSIVE LStrip(_)
LStrip(s) == IF s # <<>> /\ Head(s) = " " THEN LStrip(Tail(s)) ELSE s

RECURSIVE RStrip(_)
RStrip(s) ==
    IF s # <<>> /\ s[Len(s)] = " " THEN RStrip(SubSeq(s, 1, Len(s) - 1)) ELSE s

\* str.strip(): whitespace removed at both ends
Strip(s) == RStrip(LStrip(s))

\* str.split(","): the pieces between commas, empty pieces kept
RECURSIVE SplitFrom(_, _, _)
SplitFrom(s, i, cur) ==
    IF i > Len(s) THEN <<cur>>
    ELSE IF s[i] = "," THEN <<cur>> \o SplitFrom(s, i + 1, <<>>)
    ELSE SplitFrom(s, i + 1, Append(cur, s[i]))

SplitComma(s) == SplitFrom(s, 1, <<>>)

\* index of the first digit of s at or after i, or Len(s) + 1
RECURSIVE FirstDigit(_, _)
FirstDigit(s, i) ==
    IF i > Len(s) \/ s[i] \in Digits THEN i ELSE FirstDigit(s, i + 1)

\* the value of the digit run of s that starts at i, acc so far
RECURSIVE DigitRun(_, _, _)
DigitRun(s, i, acc) ==
    IF i > Len(s) \/ s[i] \notin Digits THEN acc
    ELSE DigitRun(s, i + 1, acc * 10 + DigitVal(s[i]))

\* ExtractNumber taking the first digit alone
ExtractNumber_OneDigit(s) ==
    LET i == FirstDigit(s, 1)
    IN  IF i > Len(s) THEN NaN ELSE Val(DigitVal(s[i]))

\* str.extract(r"(\d+)").astype(float): the first maximal digit run, or NaN
ExtractNumber(s) ==
    LET i == FirstDigit(s, 1)
    IN  IF i > Len(s) THEN NaN ELSE Val(DigitRun(s, i, 0))

\* -------------------------------------------------------------- dates
\* A date_added cell holds <<month, day, year>>; pd.to_datetime with
\* errors="coerce" yields NaT for what is no calendar date.
DaysIn(m, y) ==
    IF m \in {4, 6, 9, 11} THEN 30
    ELSE IF m = 2
         THEN IF (y % 4 = 0 /\ y % 100 # 0) \/ y % 400 = 0 THEN 29 ELSE 28
    ELSE 31

ToDatetime(c) ==
    IF IsNa(c) THEN NaN
    ELSE LET d == Get(c)
         IN  IF d[1] \in 1..12 /\ d[2] >= 1 /\ d[2] <= DaysIn(d[1], d[3])
             THEN Val(d) ELSE NaN

\* .dt.year
YearOf(c) == IF IsNa(c) THEN NaN ELSE Val(Get(c)[3])

\* ----------------------------------------------------------- the input
\* The columns the script reads by name (headers are taken as already in
\* their normalized form, the form line 16 gives them).
ExpectedCols ==
    {"title", "type", "country", "rating", "duration", "listed_in",
     "date_added", "release_year"}

SentinelCols == <<"country", "rating", "duration", "listed_in">>

Row(title, type, country, rating, duration, listed_in, date_added, release_year) ==
    [title |-> title, type |-> type, country |-> country, rating |-> rating,
     duration |-> duration, listed_in |-> listed_in,
     date_added |-> date_added, release_year |-> release_year]

s_US_IN  == <<"U", "S", ",", " ", "I", "N">>
s_IN_IN  == <<"I", "N", ",", " ", "I", "N">>
s_Unk_US == <<" ", "U", "n", "k", "n", "o", "w", "n", " ", ",", "U", "S">>
s_IN     == <<"I", "N">>
s_US     == <<" ", "U", "S", " ">>
s_A_F    == <<"A", ",", "B", ",", "C", ",", "D", ",", "E", ",", "F">>
s_G_A    == <<"G", ",", "H", ",", "I", ",", "J", ",", "K", ",", "A">>
s_D_C    == <<"D", ",", " ", "C">>
s_D      == <<"D">>
s_D_D    == <<"D", ",", "D">>
s_C      == <<"C">>
s_PG     == <<"P", "G">>
s_90min  == <<"9", "0", " ", "m", "i", "n">>
s_120min == <<"1", "2", "0", " ", "m", "i", "n">>
s_1h30m  == <<"1", "h", " ", "3", "0", "m">>
s_min    == <<"m", "i", "n">>
s_3Seas  == <<"3", " ", "S", "e", "a", "s", "o", "n", "s">>
s_Seas   == <<"S", "e", "a", "s", "o", "n", "s">>
s_US__IN == <<"U", "S", ",", ",", "I", "N">>
s_45min  == <<"4", "5", " ", "m", "i", "n">>

\* Sample records of the catalog file, as read_csv delivers them (an empty
\* CSV field is NaN).
Rows ==
    { Row(Val("t"), Val("Movie"), Val(s_US_IN), Val(s_PG), Val(s_90min),
          Val(s_D_C), Val(<<9, 25, 2019>>), Val(1994)),
      Row(Val("t"), Val("Movie"), Val(s_IN_IN), Val(s_PG), Val(s_120min),
          Val(s_D), Val(<<1, 1, 2020>>), Val(1975)),
      Row(Val("t"), Val("TV Show"), NaN, NaN, Val(s_3Seas),
          NaN, NaN, NaN),
      Row(NaN, Val("Movie"), Val(s_Unk_US), NaN, NaN,
          Val(s_C), Val(<<1, 1, 2020>>), NaN),
      Row(NaN, Val("TV Show"), Val(s_IN), Val(s_PG), Val(s_Seas),
          Val(s_D), Val(<<2, 30, 2020>>), Val(2021)),
      Row(Val("t"), NaN, Val(s_US), Val(s_PG), Val(s_90min),
          Val(s_D), Val(<<9, 25, 2019>>), Val(1994)),
      Row(Val("t"), Val("Movie"), Val(s_A_F), Val(s_PG), Val(s_1h30m),
          Val(s_D_D), Val(<<3, 3, 2021>>), Val(1980)),
      Row(Val("t"), Val("Movie"), Val(s_G_A), Val(s_PG), Val(s_min),
          Val(s_C), NaN, Val(1979)),
      Row(NaN, Val("TV Show"), Val(Unknown), Val(s_PG), Val(s_3Seas),
          Val(Unknown), Val(<<9, 25, 2019>>), Val(2019)),
      Row(Val("t"), Val("Movie"), Val(s_US__IN), NaN, Val(s_45min),
          Val(s_C), Val(<<3, 3, 2021>>), NaN) }

Tables == UNION {[1..n -> Rows] : n \in 0..MaxRecords}

ColumnSets ==
    {ExpectedCols \ m : m \in {x \in SUBSET ExpectedCols : Cardinality(x) <= MaxMissing}}

\* a record cut down to the columns the file has
Restrict(r, cols) == [c \in cols |-> r[c]]

\* a file: its header and its records, each holding the header's columns
File(cols, table) ==
    [cols |-> cols, table |-> [i \in 1..Len(table) |-> Restrict(table[i], cols)]]

\* pd.read_csv: the table of the file
ReadCsv(f) == [cols |-> f.cols, rows |-> f.table]

\* ------------------------------------------------------------- series
\* A series is a sequence of entries [k |-> label, n |-> count].
RECURSIVE Uniq(_)
Uniq(s) ==
    IF s = <<>> THEN <<>>
    ELSE LET r == Uniq(SubSeq(s, 1, Len(s) - 1))
             x == s[Len(s)]
         IN  IF \E i \in 1..Len(r) : r[i] = x THEN r ELSE Append(r, x)

Occurrences(s, x) == Cardinality({i \in 1..Len(s) : s[i] = x})

\* whether entry e stays ahead of x; a sort that is not stable may put equal
\* counts either way round (flip)
Ahead(e, x, ascending, flip) ==
    IF ascending THEN e.n < x.n \/ (~flip /\ e.n = x.n)
    ELSE e.n > x.n \/ (~flip /\ e.n = x.n)

RECURSIVE InsertEntry(_, _, _, _)
InsertEntry(x, sorted, ascending, flip) ==
    IF sorted = <<>> THEN <<x>>
    ELSE IF Ahead(Head(sorted), x, ascending, flip)
         THEN <<Head(sorted)>> \o InsertEntry(x, Tail(sorted), ascending, flip)
         ELSE <<x>> \o sorted

\* Series.sort_values(ascending=...)
RECURSIVE SortValues(_, _, _)
SortValues(s, ascending, flip) ==
    IF s = <<>> THEN <<>>
    ELSE InsertEntry(s[Len(s)],
                     SortValues(SubSeq(s, 1, Len(s) - 1), ascending, flip),
                     ascending, flip)

\* Series.value_counts(): one entry per distinct non-null label, descending
ValueCounts(labels, flip) ==
    LET u == Uniq(labels)
    IN  SortValues([i \in 1..Len(u) |-> [k |-> u[i], n |-> Occurrences(labels, u[i])]],
                   FALSE, flip)

\* Series.head(n)
HeadN(s, n) == SubSeq(s, 1, IF Len(s) < n THEN Len(s) ELSE n)

RECURSIVE SortedSeq(_)
SortedSeq(S) ==
    IF S = {} THEN <<>>
    ELSE LET m == CHOOSE x \in S : \A y \in S : x <= y
         IN  <<m>> \o SortedSeq(S \ {m})

RECURSIVE SumN(_)
SumN(s) == IF s = <<>> THEN 0 ELSE Head(s).n + SumN(Tail(s))

MaxN(s) == CHOOSE m \in {s[i].n : i \in 1..Len(s)} : \A i \in 1..Len(s) : s[i].n <= m

\* Series.idxmax(): the label of the first entry that holds the maximum
IdxMax(s) == s[CHOOSE i \in 1..Len(s) :
                   /\ s[i].n = MaxN(s)
                   /\ \A j \in 1..(i - 1) : s[j].n < MaxN(s)].k

\* the non-null cells of column c, in row order
RECURSIVE NonNull(_, _)
NonNull(rows, c) ==
    IF rows = <<>> THEN <<>>
    ELSE (IF NotNa(Head(rows)[c]) THEN <<Get(Head(rows)[c])>> ELSE <<>>)
         \o NonNull(Tail(rows), c)

\* df[df["type"].eq(t)]: the records of type t, in row order
RECURSIVE RowsOfType(_, _)
RowsOfType(rows, t) ==
    IF rows = <<>> THEN <<>>
    ELSE (IF Head(rows)["type"] = Val(t) THEN <<Head(rows)>> ELSE <<>>)
         \o RowsOfType(Tail(rows), t)

\* ---------------------------------------------------------------- state
VARIABLES
    pc,             \* the statement the script is at
    err,            \* "none", or what ended the run: "KeyError" (a column
                    \* the table lacks) or "Exception" (any other)
    csv,            \* the input file: [cols, table]
    out_dir,        \* whether figures/ exists
    df,             \* the table: [cols, rows]
    type_counts, top_countries, year_counts, top_genres,
    movies, recent_decades, tv,
    ins,            \* the insight sentences
    files,          \* the files written, in the order written
    insights_txt    \* NaN or Val(text of insights.txt)

vars == <<pc, err, csv, out_dir, df, type_counts, top_countries, year_counts,
          top_genres, movies, recent_decades, tv, ins, files, insights_txt>>

aggregates == <<type_counts, top_countries, year_counts, top_genres,
                movies, recent_decades, tv>>

\* nothing read yet
NoFile == [cols |-> {}, table |-> <<>>]

\* the catalog files the runs are given
CatalogFiles == {File(c, t) : c \in ColumnSets, t \in Tables}

Init ==
    /\ pc = "mkdir"
    /\ err = "none"
    /\ csv = NoFile
    /\ out_dir = FALSE
    /\ df = [cols |-> {}, rows |-> <<>>]
    /\ type_counts = <<>> /\ top_countries = <<>> /\ year_counts = <<>>
    /\ top_genres = <<>> /\ movies = <<>> /\ recent_decades = <<>> /\ tv = <<>>
    /\ ins = <<>>
    /\ files = <<>>
    /\ insights_txt = NaN

\* an uncaught exception ends the process
Raise(e) ==
    /\ pc' = "aborted"
    /\ err' = e

\* OUT.mkdir(parents=True, exist_ok=True)
MkDir ==
    /\ pc = "mkdir"
    /\ \/ /\ out_dir' = TRUE
          /\ pc' = "load"
          /\ UNCHANGED err
       \/ /\ Raise("Exception")
          /\ UNCHANGED out_dir
    /\ UNCHANGED <<csv, df, aggregates, ins, files, insights_txt>>

\* df = pd.read_csv(...); df.columns = [...], the file being one of disk
LoadFrom(disk) ==
    /\ pc = "load"
    /\ \/ \E f \in disk :
            /\ csv' = f
            /\ df' = ReadCsv(f)
            /\ pc' = "clean"
            /\ UNCHANGED err
       \/ /\ Raise("Exception")
          /\ UNCHANGED <<csv, df>>
    /\ UNCHANGED <<out_dir, aggregates, ins, files, insights_txt>>

Load == LoadFrom(CatalogFiles)

\* fillna("Unknown").astype(str).str.strip() of one cell
FillStrip(c) == Val(Strip(IF IsNa(c) THEN Unknown ELSE Get(c)))

\* one record after cleaning: the sentinel columns it has filled and
\* stripped, date_added parsed, year_added and release_year added
CleanRow(r, cols) ==
    [c \in cols \cup {"year_added", "release_year"} |->
        IF c = "year_added"
        THEN (IF "date_added" \in cols THEN YearOf(ToDatetime(r["date_added"])) ELSE NaN)
        ELSE IF c = "release_year"
        THEN (IF "release_year" \in cols THEN r["release_year"] ELSE NaN)
        ELSE IF c = "date_added" THEN ToDatetime(r[c])
        ELSE IF \E i \in 1..Len(SentinelCols) : SentinelCols[i] = c THEN FillStrip(r[c])
        ELSE r[c]]

\* ---------- Data Cleaning ----------
CleanTable(t) ==
    [cols |-> t.cols \cup {"year_added", "release_year"},
     rows |-> [i \in 1..Len(t.rows) |-> CleanRow(t.rows[i], t.cols)]]

Clean ==
    /\ pc = "clean"
    /\ df' = CleanTable(df)
    /\ pc' = "chart1"
    /\ UNCHANGED <<err, csv, out_dir, aggregates, ins, files, insights_txt>>

\* the plot calls of a chart and saveplot(path): the file is written, or the
\* plotting library or the write raises (an unwritable directory, data the
\* plot cannot draw) and the exception ends the run
SavePlot(path, next) ==
    \/ /\ files' = Append(files, path)
       /\ pc' = next
       /\ UNCHANGED err
    \/ /\ Raise("Exception")
       /\ UNCHANGED files

\* df[c] of a column the table lacks
KeyError(missing) ==
    /\ missing
    /\ Raise("KeyError")

TopCountriesN == 10
TopGenresN == 15
DecadeCutoff == 1980

\* ---------- 1) Movies vs TV Shows ----------
TypeCounts(rows, flip) ==
    SortValues(ValueCounts(NonNull(rows, "type"), flip), FALSE, flip)

Chart1 ==
    /\ pc = "chart1"
    /\ \/ /\ KeyError("type" \notin df.cols)
          /\ UNCHANGED <<type_counts, files>>
       \/ /\ "type" \in df.cols
          /\ \E flip \in BOOLEAN : type_counts' = TypeCounts(df.rows, flip)
          /\ SavePlot("01_movies_vs_tv.png", "chart2")
    /\ UNCHANGED <<csv, out_dir, df, top_countries, year_counts, top_genres,
                   movies, recent_decades, tv, ins, insights_txt>>

\* the stripped tokens of one comma-separated cell
Tokens(cell) ==
    IF IsNa(cell) THEN <<>>
    ELSE LET parts == SplitComma(Get(cell))
         IN  [i \in 1..Len(parts) |-> Strip(parts[i])]

\* Explode with each cell kept whole, as one observation
RECURSIVE Explode_Whole(_, _)
Explode_Whole(rows, c) ==
    IF rows = <<>> THEN <<>>
    ELSE (IF IsNa(Head(rows)[c]) THEN <<>> ELSE <<Strip(Get(Head(rows)[c]))>>)
         \o Explode_Whole(Tail(rows), c)

\* df.assign(c=df[c].str.split(",")).explode(c) with the tokens stripped:
\* the tokens of column c of every record, one observation each
RECURSIVE Explode(_, _)
Explode(rows, c) ==
    IF rows = <<>> THEN <<>> ELSE Tokens(Head(rows)[c]) \o Explode(Tail(rows), c)

RECURSIVE DropUnknown(_)
DropUnknown(toks) ==
    IF toks = <<>> THEN <<>>
    ELSE (IF Head(toks) # Unknown THEN <<Head(toks)>> ELSE <<>>) \o DropUnknown(Tail(toks))

\* TopTokens with the cut taken after the ascending sort: the n rarest
TopTokens_Rarest(rows, c, n, flip) ==
    HeadN(SortValues(ValueCounts(DropUnknown(Explode(rows, c)), flip), TRUE, flip), n)

\* value_counts().head(n).sort_values(ascending=True) of the tokens of c
TopTokens(rows, c, n, flip) ==
    SortValues(HeadN(ValueCounts(DropUnknown(Explode(rows, c)), flip), n), TRUE, flip)

\* ---------- 2) Top 10 Countries ----------
Chart2 ==
    /\ pc = "chart2"
    /\ \/ /\ KeyError("country" \notin df.cols)
          /\ UNCHANGED <<top_countries, files>>
       \/ /\ "country" \in df.cols
          /\ \E flip \in BOOLEAN :
               top_countries' = TopTokens(df.rows, "country", TopCountriesN, flip)
          /\ SavePlot("02_top_countries.png", "chart3")
    /\ UNCHANGED <<csv, out_dir, df, type_counts, year_counts, top_genres,
                   movies, recent_decades, tv, ins, insights_txt>>

\* df.dropna(subset=["year_added"]).groupby("year_added")["title"].count()
\* .sort_index(): per year, the records that have a title
YearCounts(rows) ==
    LET years == SortedSeq({Get(rows[i]["year_added"]) :
                              i \in {j \in 1..Len(rows) : NotNa(rows[j]["year_added"])}})
    IN  [y \in 1..Len(years) |->
            [k |-> years[y],
             n |-> Cardinality({i \in 1..Len(rows) :
                                  /\ rows[i]["year_added"] = Val(years[y])
                                  /\ NotNa(rows[i]["title"])})]]

\* ---------- 3) Netflix Growth by Year ----------
Chart3 ==
    /\ pc = "chart3"
    /\ \/ /\ KeyError("title" \notin df.cols)
          /\ UNCHANGED <<year_counts, files>>
       \/ /\ "title" \in df.cols
          /\ year_counts' = YearCounts(df.rows)
          /\ SavePlot("03_growth_by_year_added.png", "chart4")
    /\ UNCHANGED <<csv, out_dir, df, type_counts, top_countries, top_genres,
                   movies, recent_decades, tv, ins, insights_txt>>

\* ---------- 4) Top Genres ----------
Chart4 ==
    /\ pc = "chart4"
    /\ \/ /\ KeyError("listed_in" \notin df.cols)
          /\ UNCHANGED <<top_genres, files>>
       \/ /\ "listed_in" \in df.cols
          /\ \E flip \in BOOLEAN :
               top_genres' = TopTokens(df.rows, "listed_in", TopGenresN, flip)
          /\ SavePlot("04_top_genres.png", "chart5")
    /\ UNCHANGED <<csv, out_dir, df, type_counts, top_countries, year_counts,
                   movies, recent_decades, tv, ins, insights_txt>>

\* df.assign of one column of one record
Assign(r, col, v) == [c \in DOMAIN r \cup {col} |-> IF c = col THEN v ELSE r[c]]

\* the records of type t with column col = the number extracted from duration
WithExtracted(rows, t, col) ==
    LET sel == RowsOfType(rows, t)
    IN  [i \in 1..Len(sel) |-> Assign(sel[i], col, ExtractNumber(Get(sel[i]["duration"])))]

\* ---------- 5) Movie Duration Distribution ----------
Chart5 ==
    /\ pc = "chart5"
    /\ \/ /\ KeyError("duration" \notin df.cols)
          /\ UNCHANGED <<movies, files>>
       \/ /\ "duration" \in df.cols
          /\ movies' = WithExtracted(df.rows, "Movie", "duration_minutes")
          /\ SavePlot("05_movie_duration_hist.png", "chart6")
    /\ UNCHANGED <<csv, out_dir, df, type_counts, top_countries, year_counts,
                   top_genres, recent_decades, tv, ins, insights_txt>>

\* (release_year // 10 * 10).astype("Int64")
Decade(release_year) ==
    IF IsNa(release_year) THEN NaN ELSE Val((Get(release_year) \div 10) * 10)

WithDecade(rows) ==
    [i \in 1..Len(rows) |-> Assign(rows[i], "decade", Decade(rows[i]["release_year"]))]

\* RecentDecades with the 1980s themselves left out
RECURSIVE RecentDecades_After(_)
RecentDecades_After(rows) ==
    IF rows = <<>> THEN <<>>
    ELSE (IF NotNa(Head(rows)["decade"]) /\ Get(Head(rows)["decade"]) > DecadeCutoff
          THEN <<Head(rows)>> ELSE <<>>) \o RecentDecades_After(Tail(rows))

\* movies.dropna(subset=["decade"]) restricted to decade >= 1980
RECURSIVE RecentDecades(_)
RecentDecades(rows) ==
    IF rows = <<>> THEN <<>>
    ELSE (IF NotNa(Head(rows)["decade"]) /\ Get(Head(rows)["decade"]) >= DecadeCutoff
          THEN <<Head(rows)>> ELSE <<>>) \o RecentDecades(Tail(rows))

\* ---------- 6) Movie Duration by Decade ----------
Chart6 ==
    /\ pc = "chart6"
    /\ movies' = WithDecade(movies)
    /\ recent_decades' = RecentDecades(movies')
    /\ SavePlot("06_movie_duration_by_decade.png", "chart7")
    /\ UNCHANGED <<csv, out_dir, df, type_counts, top_countries, year_counts,
                   top_genres, tv, ins, insights_txt>>

\* HasSeasons asking only for a TV Show, numbered or not
HasSeasons_AnyShow(rows) == rows # <<>>

\* tv["seasons"].notna().sum() > 0
HasSeasons(rows) == \E i \in 1..Len(rows) : NotNa(rows[i]["seasons"])

\* ---------- 7) TV Show Seasons ----------
Chart7 ==
    /\ pc = "chart7"
    /\ tv' = WithExtracted(df.rows, "TV Show", "seasons")
    /\ IF HasSeasons(tv')
       THEN SavePlot("07_tv_seasons_hist.png", "insights")
       ELSE /\ pc' = "insights"
            /\ UNCHANGED <<err, files>>
    /\ UNCHANGED <<csv, out_dir, df, type_counts, top_countries, year_counts,
                   top_genres, movies, recent_decades, ins, insights_txt>>

\* format(a / b * 100, ".0f") and its like, for b > 0: the nearest integer
\* of the quotient.  The quotient is a binary float, so where the exact
\* value lies half way between two integers the float may lie on either
\* side (23 / 40 * 100 prints 57, 1 / 8 * 100 prints 12): up says which.
RoundNearest(a, b, up) ==
    LET q == a \div b
        r == a % b
    IN  IF 2 * r < b THEN q
        ELSE IF 2 * r > b THEN q + 1
        ELSE IF up THEN q + 1 ELSE q

\* the sentences, as the values their format strings are filled with
Sentence(kind, args) == [kind |-> kind, args |-> args]

\* f"{dominant} lead with ~{pct:.1f}% of total titles."; the share in tenths
TypeInsight(tc, up) ==
    Sentence("type", <<IdxMax(tc), RoundNearest(1000 * MaxN(tc), SumN(tc), up)>>)

\* top_countries.sort_values(ascending=False).index[:3].tolist()
TopThree(tcs, flip) ==
    LET top == HeadN(SortValues(tcs, FALSE, flip), 3)
    IN  [i \in 1..Len(top) |-> top[i].k]

CountriesInsight(tcs, flip) == Sentence("countries", TopThree(tcs, flip))

\* RecentGrowth taking the first year of the series for the latest
RecentGrowth_OfFirst(yc, up) ==
    IF MaxN(yc) = 0 THEN NaN
    ELSE Val(RoundNearest(100 * yc[1].n, MaxN(yc), up))

\* year_counts.iloc[-1] / year_counts.max() * 100, formatted ".0f"; the
\* quotient 0 / 0 of two numpy integers is nan
RecentGrowth(yc, up) ==
    IF MaxN(yc) = 0 THEN NaN
    ELSE Val(RoundNearest(100 * yc[Len(yc)].n, MaxN(yc), up))

GrowthInsight(yc, up) == Sentence("growth", <<IdxMax(yc), RecentGrowth(yc, up)>>)

\* the non-null duration_minutes of the movies
Durations(ms) == NonNull(ms, "duration_minutes")

RECURSIVE SumSeq(_)
SumSeq(s) == IF s = <<>> THEN 0 ELSE Head(s) + SumSeq(Tail(s))

\* movies["duration_minutes"].mean(), formatted ".0f"
MeanDuration(ms, up) == RoundNearest(SumSeq(Durations(ms)), Len(Durations(ms)), up)

DurationInsight(ms, up) == Sentence("duration", <<MeanDuration(ms, up)>>)

\* BuildInsights with the growth sentence given for any non-empty series
BuildInsights_AnyYear(tc, tcs, yc, ms, flip, up) ==
    (IF tc # <<>> THEN <<TypeInsight(tc, up)>> ELSE <<>>)
    \o (IF tcs # <<>> THEN <<CountriesInsight(tcs, flip)>> ELSE <<>>)
    \o (IF Len(yc) > 0 THEN <<GrowthInsight(yc, up)>> ELSE <<>>)
    \o (IF Durations(ms) # <<>> THEN <<DurationInsight(ms, up)>> ELSE <<>>)

\* ---------- Generate Insights ----------
BuildInsights(tc, tcs, yc, ms, flip, up) ==
    (IF tc # <<>> THEN <<TypeInsight(tc, up)>> ELSE <<>>)
    \o (IF tcs # <<>> THEN <<CountriesInsight(tcs, flip)>> ELSE <<>>)
    \o (IF Len(yc) > 1 THEN <<GrowthInsight(yc, up)>> ELSE <<>>)
    \o (IF Durations(ms) # <<>> THEN <<DurationInsight(ms, up)>> ELSE <<>>)

Insights ==
    /\ pc = "insights"
    /\ \E flip, up \in BOOLEAN :
         ins' = BuildInsights(type_counts, top_countries, year_counts, movies, flip, up)
    /\ pc' = "write"
    /\ UNCHANGED <<err, csv, out_dir, df, aggregates, files, insights_txt>>

\* the pieces of the text: literal text, or a sentence
Lit(text) == Sentence("lit", <<text>>)
Header == Lit("Key Insights:")
Newline == Lit("\n")
Bullet == Lit("- ")

\* sep.join(items)
RECURSIVE Join(_, _)
Join(sep, items) ==
    IF items = <<>> THEN <<>>
    ELSE IF Len(items) = 1 THEN items
    ELSE <<Head(items)>> \o sep \o Join(sep, Tail(items))

\* "Key Insights:\n- " + "\n- ".join(ins)
InsightsText(sentences) ==
    <<Header, Newline, Bullet>> \o Join(<<Newline, Bullet>>, sentences)

\* Path("insights.txt").write_text(...)
WriteInsights ==
    /\ pc = "write"
    /\ \/ /\ insights_txt' = Val(InsightsText(ins))
          /\ pc' = "report"
          /\ UNCHANGED err
       \/ /\ Raise("Exception")
          /\ UNCHANGED insights_txt
    /\ UNCHANGED <<csv, out_dir, df, aggregates, ins, files>>

\* the closing listing of the figures and the confirmation line
Report ==
    /\ pc = "report"
    /\ pc' = "done"
    /\ UNCHANGED <<err, csv, out_dir, df, aggregates, ins, files, insights_txt>>

Next == MkDir \/ Load \/ Clean \/ Chart1 \/ Chart2 \/ Chart3 \/ Chart4 \/ Chart5
        \/ Chart6 \/ Chart7 \/ Insights \/ WriteInsights \/ Report

Spec == Init /\ [][Next]_vars

\* ------------------------------------------------ runs on duration strings
\* The same script run on one-record files whose duration is any short
\* string over DurAlphabet, one of the catalog's forms, or empty.
DurAlphabet == {"9", "0", " ", "m"}

DurationStrings ==
    UNION {[1..n -> DurAlphabet] : n \in 1..MaxDurLen}
    \cup {s_90min, s_120min, s_3Seas, s_1h30m, s_Seas, Unknown}

DurationCells == {NaN} \cup {Val(d) : d \in DurationStrings}

DurationFiles ==
    {File(ExpectedCols,
          <<Row(Val("t"), Val(t), Val(s_IN), Val(s_PG), d, Val(s_D),
                Val(<<9, 25, 2019>>), Val(1994))>>) :
        t \in {"Movie", "TV Show"}, d \in DurationCells}

LoadDurations == LoadFrom(DurationFiles)

NextExtract == MkDir \/ LoadDurations \/ Clean \/ Chart1 \/ Chart2 \/ Chart3
               \/ Chart4 \/ Chart5 \/ Chart6 \/ Chart7 \/ Insights
               \/ WriteInsights \/ Report

SpecExtract == Init /\ [][NextExtract]_vars

\* the names the seven charts are saved under
ChartFiles ==
    <<"01_movies_vs_tv.png", "02_top_countries.png", "03_growth_by_year_added.png",
      "04_top_genres.png", "05_movie_duration_hist.png",
      "06_movie_duration_by_decade.png", "07_tv_seasons_hist.png">>

\* ------------------------------------------------- runs on yearly series
\* The insight steps run on yearly series of any counts, large ones
\* included: a catalog of some hundred records a year.  A count of 0 is the
\* count of a year none of whose records has a title.  The steps from the
\* insights on read the aggregates alone, not the table.
GrowthCounts == {0, 1, 3, 200, 201}

GrowthSeries ==
    {[i \in 1..n |-> [k |-> 2018 + i, n |-> c[i]]] :
        <<n, c>> \in UNION {{<<m, f>> : f \in [1..m -> GrowthCounts]} : m \in 0..MaxYears}}

InitGrowth ==
    /\ pc = "insights"
    /\ err = "none"
    /\ csv = NoFile
    /\ out_dir = TRUE
    /\ df = CleanTable(ReadCsv(File(ExpectedCols, <<>>)))
    /\ year_counts \in GrowthSeries
    /\ type_counts = <<>> /\ top_countries = <<>> /\ top_genres = <<>>
    /\ movies = <<>> /\ recent_decades = <<>> /\ tv = <<>>
    /\ ins = <<>>
    /\ files = SubSeq(ChartFiles, 1, 6)
    /\ insights_txt = NaN

NextGrowth == Insights \/ WriteInsights \/ Report

SpecGrowth == InitGrowth /\ [][NextGrowth]_vars

\* ================================================================ claims

\* the insight list has been built
InsightsBuilt == pc \in {"write", "report", "done"}

\* insights.txt has been written
Written == NotNa(insights_txt)

IsBullet(piece) == piece.kind = "lit" /\ piece.args = <<"- ">>
IsHeader(piece) == piece.kind = "lit" /\ piece.args = <<"Key Insights:">>

BulletCount(text) == Cardinality({i \in 1..Len(text) : IsBullet(text[i])})

Kinds(sentences) == [i \in 1..Len(sentences) |-> sentences[i].kind]

\* C1 (as claimed): the text written holds one "- " bullet per sentence, and
\* for a table of zero records every aggregate is empty, no sentence is
\* emitted and the text is the header line alone, with no "- " after it.
C1_HeaderAloneForEmptyTable ==
    Written =>
        /\ BulletCount(Get(insights_txt)) = Len(ins)
        /\ csv.table = <<>> =>
             /\ type_counts = <<>> /\ top_countries = <<>> /\ year_counts = <<>>
             /\ top_genres = <<>> /\ movies = <<>> /\ recent_decades = <<>>
             /\ tv = <<>>
             /\ ins = <<>>
             /\ Len(Get(insights_txt)) = 1
             /\ IsHeader(Get(insights_txt)[1])

\* the sentences the four preconditions call for, in the fixed order
ExpectedKinds ==
    (IF type_counts # <<>> THEN <<"type">> ELSE <<>>)
    \o (IF top_countries # <<>> THEN <<"countries">> ELSE <<>>)
    \o (IF Len(year_counts) > 1 THEN <<"growth">> ELSE <<>>)
    \o (IF \E i \in 1..Len(movies) : NotNa(movies[i]["duration_minutes"])
        THEN <<"duration">> ELSE <<>>)

\* C2: the insight list holds 0 to 4 sentences in the order type, countries,
\* growth, duration, and each is present exactly when its precondition
\* holds: type distribution non-empty, top countries non-empty, more than
\* one year in the yearly series, a Movie with a non-null duration_minutes.
C2_SentencesFollowPreconditions ==
    InsightsBuilt =>
        /\ Len(ins) \in 0..4
        /\ Kinds(ins) = ExpectedKinds

\* C2's case: some sentences present, the growth sentence left out because
\* the series has a single year
C2_Witness ==
    /\ InsightsBuilt
    /\ Len(year_counts) = 1
    /\ Kinds(ins) = <<"type", "countries", "duration">>

\* the cleaning step has run
Cleaned == "year_added" \in df.cols

\* C3 (as claimed): whatever expected columns the file has, no step ends in
\* a missing-column error, and the cleaned table has country, rating,
\* duration and listed_in with no null, plus year_added and release_year.
C3_LoaderTotalOnAnyColumns ==
    /\ err # "KeyError"
    /\ Cleaned =>
         /\ {"country", "rating", "duration", "listed_in", "release_year"} \subseteq df.cols
         /\ \A i \in 1..Len(df.rows) :
              \A c \in {"country", "rating", "duration", "listed_in"} :
                 NotNa(df.rows[i][c])

\* the trimmed tokens record r of the file lists in column c
Listed(r, c) == Tokens(FillStrip(r[c]))

\* every token the records of the file list in column c, record by record
RECURSIVE AllListed(_, _)
AllListed(table, c) ==
    IF table = <<>> THEN <<>> ELSE Listed(Head(table), c) \o AllListed(Tail(table), c)

\* how many records of the file list token t in column c
ListingRecords(table, c, t) ==
    Cardinality({i \in 1..Len(table) :
                   \E j \in 1..Len(Listed(table[i], c)) : Listed(table[i], c)[j] = t})

HasComma(t) == \E i \in 1..Len(t) : t[i] = ","

\* C4 (as claimed): in the country and genre distributions the count of a
\* token is the number of records that list it (a record listing it twice
\* adds 1), and no entry is a combined, comma-joined label.
C4_OneCountPerListingRecord ==
    /\ \A i \in 1..Len(top_countries) :
         /\ top_countries[i].n = ListingRecords(csv.table, "country", top_countries[i].k)
         /\ ~HasComma(top_countries[i].k)
    /\ \A i \in 1..Len(top_genres) :
         /\ top_genres[i].n = ListingRecords(csv.table, "listed_in", top_genres[i].k)
         /\ ~HasComma(top_genres[i].k)

\* the entries of distribution top count every listing of their token in
\* column c, none is comma-joined, and a token without an entry is left out
\* only by the cut to n entries
CountsEveryListing(top, c, n) ==
    LET toks == AllListed(csv.table, c)
    IN  /\ \A i \in 1..Len(top) :
             /\ top[i].n = Occurrences(toks, top[i].k)
             /\ ~HasComma(top[i].k)
        /\ top # <<>> =>
             \/ Len(top) = n
             \/ \A j \in 1..Len(toks) :
                  toks[j] = Unknown \/ \E i \in 1..Len(top) : top[i].k = toks[j]

\* C4 (amended): in the country and genre distributions every trimmed token
\* of a record's comma-separated field is one observation: the count of a
\* token is the number of times the records list it (a record listing it
\* twice adds 2), and no entry is a combined, comma-joined label.
C4_OneCountPerListedToken ==
    /\ CountsEveryListing(top_countries, "country", TopCountriesN)
    /\ CountsEveryListing(top_genres, "listed_in", TopGenresN)

\* C4's case: one record whose field lists the same country twice, counted 2,
\* beside a record listing two countries
C4_Witness ==
    /\ Len(csv.table) = 2
    /\ \E i \in 1..Len(top_countries) :
         /\ top_countries[i].n = 3
         /\ ListingRecords(csv.table, "country", top_countries[i].k) = 2
    /\ Len(top_countries) = 2
    /\ top_genres # <<>>

\* the year pd.to_datetime(...).dt.year gives record r, or NaN
YearAdded(r) ==
    IF "date_added" \in DOMAIN r THEN YearOf(ToDatetime(r["date_added"])) ELSE NaN

\* C5 (as claimed): the type distribution and the yearly series count records:
\* their totals are the numbers of records with a non-null type and a
\* non-null year_added, and the count of year y is the number of records
\* whose year_added is y, whatever their other fields (a missing title).
C5_CountsAreRecordCounts ==
    /\ type_counts # <<>> =>
         SumN(type_counts) =
             Cardinality({i \in 1..Len(csv.table) : NotNa(csv.table[i]["type"])})
    /\ year_counts # <<>> =>
         /\ SumN(year_counts) =
               Cardinality({i \in 1..Len(csv.table) : NotNa(YearAdded(csv.table[i]))})
         /\ \A y \in 1..Len(year_counts) :
               year_counts[y].n =
                   Cardinality({i \in 1..Len(csv.table) :
                                  YearAdded(csv.table[i]) = Val(year_counts[y].k)})

\* the duration text of record r of the file, "Unknown" for an empty field
DurationText(r) == IF IsNa(r["duration"]) THEN Unknown ELSE Get(r["duration"])

\* positions i..j of s are its first maximal run of decimal digits
IsFirstRun(s, i, j) ==
    /\ 1 <= i /\ i <= j /\ j <= Len(s)
    /\ \A k \in i..j : s[k] \in Digits
    /\ \A k \in 1..(i - 1) : s[k] \notin Digits
    /\ j = Len(s) \/ s[j + 1] \notin Digits

\* the number written in decimal at positions i..j of s
RECURSIVE Decimal(_, _, _)
Decimal(s, i, j) ==
    IF j < i THEN 0 ELSE DigitVal(s[j]) + 10 * Decimal(s, i, j - 1)

\* v is what the extraction rule gives for s: no value where s has no
\* digit, else the non-negative integer of the first maximal digit run
IsFirstRunValue(s, v) ==
    IF \A k \in 1..Len(s) : s[k] \notin Digits THEN v = NaN
    ELSE \E i, j \in 1..Len(s) :
            /\ IsFirstRun(s, i, j)
            /\ v = Val(Decimal(s, i, j))
            /\ Decimal(s, i, j) >= 0

\* column col of the derived rows holds the extraction of the duration of
\* the file's records of type t, record by record
ExtractedFrom(derived, t, col) ==
    LET raw == RowsOfType(csv.table, t)
    IN  derived # <<>> =>
          /\ Len(derived) = Len(raw)
          /\ \A k \in 1..Len(raw) :
               LET s == DurationText(raw[k])
                   v == derived[k][col]
               IN  /\ IsFirstRunValue(s, v)
                   /\ s = s_90min => v = Val(90)
                   /\ s = s_3Seas => v = Val(3)
                   /\ s = Unknown => v = NaN
                   /\ s = s_1h30m => v = Val(1)

\* C6: duration_minutes (Movies) and seasons (TV Shows) are, for every
\* duration string, the value of its first maximal run of decimal digits, a
\* non-negative integer, or no value when it has no digit: "90 min" gives
\* 90, "3 Seasons" 3, "Unknown" no value, several runs the first run.
C6_ExtractionIsFirstDigitRun ==
    /\ ExtractedFrom(movies, "Movie", "duration_minutes")
    /\ ExtractedFrom(tv, "TV Show", "seasons")

\* C6's case: a TV Show whose duration "9m0" has two digit runs, and seasons
\* is the first of them
C6_Witness ==
    /\ Len(tv) = 1
    /\ csv.table[1]["duration"] = Val(<<"9", "m", "0">>)
    /\ tv[1]["seasons"] = Val(9)

\* the records of type Movie of the file, in file order
MovieRecords == RowsOfType(csv.table, "Movie")

\* the decade chart's table has been built
DecadesBuilt == pc \in {"chart7", "insights", "write", "report", "done"}

InDecadeView(m) == \E j \in 1..Len(recent_decades) : recent_decades[j] = m

\* mean is a nearest integer of total / count
IsNearest(mean, total, count) ==
    /\ 2 * (mean * count - total) <= count
    /\ 2 * (total - mean * count) <= count

\* C7: a Movie with a release_year has decade = floor(release_year / 10) * 10
\* and is in the duration-by-decade view iff that decade is at least 1980; a
\* Movie left out of the view (release_year below 1980, or none) still
\* counts in the duration distribution and in the mean of the insight.
C7_DecadeViewAndMean ==
    DecadesBuilt =>
        /\ Len(movies) = Len(MovieRecords)
        /\ \A k \in 1..Len(movies) :
             LET ry == IF "release_year" \in DOMAIN MovieRecords[k]
                       THEN MovieRecords[k]["release_year"] ELSE NaN
                 d == movies[k]["decade"]
             IN  /\ NotNa(ry) =>
                       /\ NotNa(d)
                       /\ Get(d) % 10 = 0
                       /\ Get(d) <= Get(ry) /\ Get(ry) < Get(d) + 10
                       /\ InDecadeView(movies[k]) <=> Get(d) >= 1980
                 /\ IsNa(ry) => ~InDecadeView(movies[k])
                 /\ movies[k]["duration_minutes"]
                       = ExtractNumber(DurationText(MovieRecords[k]))
        /\ Len(recent_decades) =
              Cardinality({k \in 1..Len(movies) : InDecadeView(movies[k])})
        /\ InsightsBuilt =>
             \A i \in 1..Len(ins) :
                ins[i].kind = "duration" =>
                   IsNearest(ins[i].args[1],
                             SumSeq(NonNull(movies, "duration_minutes")),
                             Len(NonNull(movies, "duration_minutes")))

\* C7's case: a 1975 Movie of 120 minutes beside a 1994 Movie of 90 minutes;
\* only the second is in the decade view, and the mean is that of both
C7_Witness ==
    /\ InsightsBuilt
    /\ Len(movies) = 2
    /\ Len(recent_decades) = 1
    /\ \E k \in 1..2 :
         /\ movies[k]["release_year"] = Val(1975)
         /\ movies[k]["decade"] = Val(1970)
         /\ movies[k]["duration_minutes"] = Val(120)
         /\ ~InDecadeView(movies[k])
    /\ \E k \in 1..2 : movies[k]["decade"] = Val(1990) /\ InDecadeView(movies[k])
    /\ \E i \in 1..Len(ins) : ins[i].kind = "duration" /\ ins[i].args = <<105>>

HasDigit(s) == \E k \in 1..Len(s) : s[k] \in Digits

\* some TV Show record of the file has a number in its duration
TvSeasonsInFile ==
    \E i \in 1..Len(csv.table) :
       /\ csv.table[i]["type"] = Val("TV Show")
       /\ HasDigit(DurationText(csv.table[i]))

\* C8: the output directory exists before any file is written; the charts
\* are written in the order 01 to 06, each step done before the next
\* begins; 07_tv_seasons_hist.png is written iff a TV Show record has a
\* numeric seasons value; insights.txt is written only after every chart
\* write; a run ended by a failure never writes insights.txt.
C8_WritesInOrder ==
    /\ Len(files) <= 7
    /\ \A k \in 1..Len(files) : files[k] = ChartFiles[k]
    /\ (files # <<>> \/ Written) => out_dir
    /\ \A k \in 1..7 :
         pc = <<"chart1", "chart2", "chart3", "chart4", "chart5", "chart6", "chart7">>[k]
            => Len(files) = k - 1
    /\ (InsightsBuilt \/ pc = "insights") =>
         /\ Len(files) >= 6
         /\ Len(files) = 7 <=> TvSeasonsInFile
    /\ Written => pc \in {"report", "done"}
    /\ pc = "aborted" <=> err # "none"
    /\ pc = "aborted" => ~Written

\* C8's case: a run to the end on a file whose only TV Show has no number
\* in its duration: six charts, no seventh, then insights.txt
C8_Witness ==
    /\ Written
    /\ tv # <<>>
    /\ files = SubSeq(ChartFiles, 1, 6)

\* the top-countries distribution has been built
CountriesBuilt ==
    pc \in {"chart3", "chart4", "chart5", "chart6", "chart7", "insights",
            "write", "report", "done"}

Min(a, b) == IF a < b THEN a ELSE b

\* names are up to three tokens of the highest counts among toks, those
\* other than "Unknown", in descending order of count
IsTopThree(names, toks) ==
    LET known == {toks[j] : j \in 1..Len(toks)} \ {Unknown}
    IN  /\ Len(names) = Min(3, Cardinality(known))
        /\ \A i \in 1..Len(names) : names[i] \in known
        /\ \A i, j \in 1..Len(names) : i # j => names[i] # names[j]
        /\ \A i \in 1..(Len(names) - 1) :
             Occurrences(toks, names[i]) >= Occurrences(toks, names[i + 1])
        /\ \A t \in known :
             (\A i \in 1..Len(names) : names[i] # t) =>
                \A i \in 1..Len(names) : Occurrences(toks, t) <= Occurrences(toks, names[i])

\* C9: top countries never has the key "Unknown", has min(10, n) entries
\* for n distinct other tokens, leaves out no token of a count above that
\* of a token kept, and is in ascending order of count; the countries
\* insight names the (up to) three tokens of the highest counts of all, in
\* descending order of count.
C9_TopTenAndTopThree ==
    CountriesBuilt =>
        LET toks == AllListed(csv.table, "country")
            known == {toks[j] : j \in 1..Len(toks)} \ {Unknown}
            top == top_countries
            kept == {top[i].k : i \in 1..Len(top)}
        IN  /\ Unknown \notin kept
            /\ kept \subseteq known
            /\ Len(top) = Min(10, Cardinality(known))
            /\ Cardinality(kept) = Len(top)
            /\ \A i \in 1..Len(top) : top[i].n = Occurrences(toks, top[i].k)
            /\ \A t \in known \ kept :
                 \A i \in 1..Len(top) : Occurrences(toks, t) <= top[i].n
            /\ \A i \in 1..(Len(top) - 1) : top[i].n <= top[i + 1].n
            /\ InsightsBuilt =>
                 /\ known # {} => \E i \in 1..Len(ins) : ins[i].kind = "countries"
                 /\ \A i \in 1..Len(ins) :
                      ins[i].kind = "countries" => IsTopThree(ins[i].args, toks)

\* C9's case: more than ten distinct countries, so that the cut leaves some
\* out, unequal counts among those kept, and three names in the insight
C9_Witness ==
    /\ InsightsBuilt
    /\ Len(top_countries) = 10
    /\ top_countries[1].n < top_countries[10].n
    /\ LET toks == AllListed(csv.table, "country")
       IN  Cardinality({toks[j] : j \in 1..Len(toks)} \ {Unknown}) > 10
    /\ \E i \in 1..Len(ins) :
         /\ ins[i].kind = "countries"
         /\ Len(ins[i].args) = 3
         /\ ins[i].args[1] = top_countries[10].k

\* the count the series gives year y
CountOf(yc, y) == (CHOOSE e \in {yc[i] : i \in 1..Len(yc)} : e.k = y).n

\* C10 (as claimed): with more than one year in the series the growth
\* insight names a year of the maximum count as the peak and gives the
\* latest year's count as a percentage of the peak's, rounded to the
\* nearest integer: a number from 0 to 100, and 100 exactly when the latest
\* year attains the maximum.
C10_PercentOfPeakExact ==
    (InsightsBuilt /\ Len(year_counts) > 1) =>
        \E i \in 1..Len(ins) :
           /\ ins[i].kind = "growth"
           /\ LET peak == ins[i].args[1]
                  pct == ins[i].args[2]
                  latest == year_counts[Len(year_counts)].n
                  max == MaxN(year_counts)
              IN  /\ CountOf(year_counts, peak) = max
                  /\ NotNa(pct)
                  /\ IsNearest(Get(pct), 100 * latest, max)
                  /\ Get(pct) >= 0 /\ Get(pct) <= 100
                  /\ Get(pct) = 100 <=> latest = max

\* C10 (amended): with more than one year in the series the growth insight
\* names a year of the maximum count as the peak.  Where that count is
\* positive the percentage is the latest year's count as a percentage of
\* it, rounded to the nearest integer, a number from 0 to 100; it is 100
\* whenever the latest year attains the maximum, and also whenever it is
\* above 99.5 % of it, never when it is below 99.5 %.  Where every count is
\* 0 the percentage is 0 / 0, not a number.
C10_PercentOfPeak ==
    (InsightsBuilt /\ Len(year_counts) > 1) =>
        \E i \in 1..Len(ins) :
           /\ ins[i].kind = "growth"
           /\ LET peak == ins[i].args[1]
                  pct == ins[i].args[2]
                  latest == year_counts[Len(year_counts)].n
                  max == MaxN(year_counts)
              IN  /\ CountOf(year_counts, peak) = max
                  /\ max = 0 <=> IsNa(pct)
                  /\ max > 0 =>
                       /\ IsNearest(Get(pct), 100 * latest, max)
                       /\ Get(pct) >= 0 /\ Get(pct) <= 100
                       /\ latest = max => Get(pct) = 100
                       /\ 200 * latest > 199 * max => Get(pct) = 100
                       /\ Get(pct) = 100 => 200 * latest >= 199 * max

\* C10's case: the latest year has 200 titles, the peak year 201, and the
\* insight says 100 %
C10_Witness ==
    /\ InsightsBuilt
    /\ Len(year_counts) > 1
    /\ year_counts[Len(year_counts)].n = 200
    /\ MaxN(year_counts) = 201
    /\ \E i \in 1..Len(ins) : ins[i].kind = "growth" /\ ins[i].args[2] = Val(100)

====
